---- MODULE Spec2Model ----
(***************************************************************************)
(* Model of src/src/lib.rs: BezierPath (a kurbo BezPath behind a Mutex),   *)
(* its builder methods, get_segments, and boolean_operation, which calls   *)
(* the linesweeper engine on clones of two paths and wraps every contour   *)
(* of the output in a new BezierPath.                                      *)
(*                                                                         *)
(* Threads are the callers of the exported functions.  One action is one   *)
(* step of a call: blocking on the Mutex, the work done under the guard    *)
(* (the guard is a temporary, dropped at the end of the statement), the    *)
(* engine call, the return.                                                *)
(***************************************************************************)
EXTENDS Naturals, Sequences, FiniteSets

VARIABLES
    live,        \* the BezierPath objects that exist (their handles)
    path,        \* path[p]: the BezPath inside BezierPath p's Mutex
    lock,        \* lock[p]: the thread holding p's MutexGuard, or NoThread
    pc,          \* pc[t]: where thread t is in its current call
    call,        \* call[t]: the exported function t is in, with its arguments
    local,       \* local[t]: the local variables of the call
    ret,         \* ret[t]: the value the call returned, while t holds it
    calls,       \* history: calls[p], the builder calls made on p, in call order
    born,        \* history: born[p], what p held when it was constructed
    engine_log   \* history: engine_log[t], the binary_op invocations of t's call

vars == <<live, path, lock, pc, call, local, ret, calls, born, engine_log>>

------------------------------------------------------------------------------
(* Bounds of the model, and the number of paths boolean_operation takes:   *)
(* that many paths are made by BezierPath::new() before the run.           *)

NumThreads == 2      \* concurrent callers
NumInputs == 2       \* the operands of boolean_operation, path_a and path_b
MaxContours == 2     \* contours in one engine output
MaxLen == 1          \* builder calls per path where paths are combined
ShareLen == 2        \* builder calls on the path the threads share
BuildLen == 3        \* builder calls on the path of the sequential run

Threads == 1..NumThreads
MaxPaths == NumInputs + NumThreads * MaxContours
PathIds == 1..MaxPaths
NoThread == 0

------------------------------------------------------------------------------
(* The data: f64 samples, kurbo::Point, kurbo::PathEl, PathSegment. *)

Finite == {"0.0", "0.5", "1.0", "1.5", "2.0", "3.0", "4.0", "5.0"}
Infinite == {"inf"}
NotANumber == {"NaN"}

\* kurbo::Point::new(x, y)
Point(x, y) == [x |-> x, y |-> y]

\* kurbo::PathEl: a variant name and its points
PathEl(variant, points) == [el |-> variant, pts |-> points]

\* PathSegment, lib.rs: a variant name and named coordinate fields
SegMoveTo(x, y) == [seg |-> "MoveTo", x |-> x, y |-> y]
SegLineTo(x, y) == [seg |-> "LineTo", x |-> x, y |-> y]
SegQuadTo(cp_x, cp_y, x, y) ==
    [seg |-> "QuadTo", cp_x |-> cp_x, cp_y |-> cp_y, x |-> x, y |-> y]
SegCurveTo(cp1_x, cp1_y, cp2_x, cp2_y, x, y) ==
    [seg |-> "CurveTo", cp1_x |-> cp1_x, cp1_y |-> cp1_y,
     cp2_x |-> cp2_x, cp2_y |-> cp2_y, x |-> x, y |-> y]
SegClosePath == [seg |-> "ClosePath"]

\* BezierPath::new(): an empty BezPath
new == << >>

\* The element a builder method hands to kurbo: move_to pushes
\* PathEl::MoveTo(Point::new(x, y)), and so on.
BuilderEl(fn, args) ==
    CASE fn = "move_to" -> PathEl("MoveTo", <<Point(args[1], args[2])>>)
      [] fn = "line_to" -> PathEl("LineTo", <<Point(args[1], args[2])>>)
      [] fn = "curve_to" ->
            PathEl("CurveTo", <<Point(args[1], args[2]),
                                Point(args[3], args[4]),
                                Point(args[5], args[6])>>)
      [] fn = "quad_to" ->
            PathEl("QuadTo", <<Point(args[1], args[2]),
                               Point(args[3], args[4])>>)
      [] fn = "close_path" -> PathEl("ClosePath", << >>)

\* A mutant of ToSegment: QuadTo and CurveTo reduced to a line to the end point.
ToSegmentFlattened(e) ==
    CASE e.el = "MoveTo" -> SegMoveTo(e.pts[1].x, e.pts[1].y)
      [] e.el = "LineTo" -> SegLineTo(e.pts[1].x, e.pts[1].y)
      [] e.el = "QuadTo" -> SegLineTo(e.pts[2].x, e.pts[2].y)
      [] e.el = "CurveTo" -> SegLineTo(e.pts[3].x, e.pts[3].y)
      [] e.el = "ClosePath" -> SegClosePath

\* The match of get_segments: one PathSegment for one PathEl.
ToSegment(e) ==
    CASE e.el = "MoveTo" -> SegMoveTo(e.pts[1].x, e.pts[1].y)
      [] e.el = "LineTo" -> SegLineTo(e.pts[1].x, e.pts[1].y)
      [] e.el = "QuadTo" ->
            SegQuadTo(e.pts[1].x, e.pts[1].y, e.pts[2].x, e.pts[2].y)
      [] e.el = "CurveTo" ->
            SegCurveTo(e.pts[1].x, e.pts[1].y, e.pts[2].x, e.pts[2].y,
                       e.pts[3].x, e.pts[3].y)
      [] e.el = "ClosePath" -> SegClosePath

------------------------------------------------------------------------------
(* Calls, locals and return values. *)

NoCall == [fn |-> "none", paths |-> << >>, args |-> << >>]
Call(fn, paths, args) == [fn |-> fn, paths |-> paths, args |-> args]

NoLocal == [segments |-> << >>, end |-> 0, kurbo_a |-> << >>, kurbo_b |-> << >>]

NoRet == [kind |-> "none"]
RetVec(segments) == [kind |-> "Vec", segments |-> segments]
RetOk(paths) == [kind |-> "Ok", paths |-> paths]
RetErr(error) == [kind |-> "Err", error |-> error]

BuilderFns == {"move_to", "line_to", "curve_to", "quad_to", "close_path"}

\* The builder calls of the sequential run: every method, coordinates that
\* differ by position, an infinite and a not-a-number coordinate.
BuildCalls ==
    { <<"move_to", <<"0.0", "1.0">> >>,
      <<"line_to", <<"1.0", "0.0">> >>,
      <<"quad_to", <<"0.5", "1.0", "2.0", "0.0">> >>,
      <<"curve_to", <<"0.0", "1.0", "2.0", "3.0", "4.0", "5.0">> >>,
      <<"close_path", << >> >>,
      <<"line_to", <<"inf", "0.0">> >>,
      <<"move_to", <<"NaN", "1.0">> >> }

------------------------------------------------------------------------------
(* The initial state: NumInputs empty paths, every thread outside a call. *)

Init ==
    /\ live = 1..NumInputs
    /\ path = [p \in PathIds |-> new]
    /\ lock = [p \in PathIds |-> NoThread]
    /\ pc = [t \in Threads |-> "idle"]
    /\ call = [t \in Threads |-> NoCall]
    /\ local = [t \in Threads |-> NoLocal]
    /\ ret = [t \in Threads |-> NoRet]
    /\ calls = [p \in PathIds |-> << >>]
    /\ born = [p \in PathIds |-> new]
    /\ engine_log = [t \in Threads |-> << >>]

------------------------------------------------------------------------------
(* std::sync::Mutex *)

\* A mutant of MutexFree: lock() never waits.
MutexNeverWaits(p) == TRUE

\* lock() returns only when no guard of p's Mutex is alive.
MutexFree(p) == lock[p] = NoThread

------------------------------------------------------------------------------
(* The builder methods: move_to, line_to, curve_to, quad_to, close_path.   *)
(* Each is self.path.lock().unwrap().<method>(points).                     *)

\* A thread calls a builder method on p (at most max calls per path).
BuilderCall(t, p, fn, args, max) ==
    /\ pc[t] = "idle"
    /\ p \in live
    /\ fn \in BuilderFns
    /\ Len(calls[p]) < max
    /\ pc' = [pc EXCEPT ![t] = "b_lock"]
    /\ call' = [call EXCEPT ![t] = Call(fn, <<p>>, args)]
    /\ calls' = [calls EXCEPT ![p] = Append(@, Call(fn, <<p>>, args))]
    /\ UNCHANGED <<live, path, lock, local, ret, born, engine_log>>

\* self.path.lock().unwrap()
BuilderLock(t) ==
    /\ pc[t] = "b_lock"
    /\ MutexFree(call[t].paths[1])
    /\ lock' = [lock EXCEPT ![call[t].paths[1]] = t]
    /\ pc' = [pc EXCEPT ![t] = "b_push"]
    /\ UNCHANGED <<live, path, call, local, ret, calls, born, engine_log>>

\* A mutant of PushEl: the element is put in front.
PushElFront(bez, e) == <<e>> \o bez

\* A mutant of PushEl: an element that is no MoveTo is refused on a path
\* that holds no element yet, and non-finite coordinates are refused.
PushElValidated(bez, e) ==
    IF \/ (bez = << >> /\ e.el # "MoveTo")
       \/ \E i \in 1..Len(e.pts) : {e.pts[i].x, e.pts[i].y} \cap Finite
                                      # {e.pts[i].x, e.pts[i].y}
    THEN bez
    ELSE Append(bez, e)

\* BezPath::move_to and the others: the element goes to the end of the path.
PushEl(bez, e) == Append(bez, e)

\* A mutant of BuilderPush: the sequences get_segments and to_kurbo_path
\* handed out share the path's storage, and the push shows in them.
BuilderPushAliased(t) ==
    LET p == call[t].paths[1]
        e == BuilderEl(call[t].fn, call[t].args)
    IN /\ pc[t] = "b_push"
       /\ path' = [path EXCEPT ![p] = PushEl(@, e)]
       /\ ret' = [u \in Threads |->
                     IF pc[u] = "gs_ret" /\ call[u].paths[1] = p
                     THEN RetVec(Append(ret[u].segments, ToSegment(e)))
                     ELSE ret[u]]
       /\ local' = [u \in Threads |->
                       IF call[u].fn = "boolean_operation"
                       THEN [local[u] EXCEPT
                               !.kurbo_a =
                                   IF call[u].paths[1] = p
                                      /\ pc[u] \in {"bo_lock_b", "bo_clone_b", "bo_engine"}
                                   THEN Append(@, e) ELSE @,
                               !.kurbo_b =
                                   IF call[u].paths[2] = p /\ pc[u] = "bo_engine"
                                   THEN Append(@, e) ELSE @]
                       ELSE local[u]]
       /\ lock' = [lock EXCEPT ![p] = NoThread]
       /\ pc' = [pc EXCEPT ![t] = "idle"]
       /\ call' = [call EXCEPT ![t] = NoCall]
       /\ UNCHANGED <<live, calls, born, engine_log>>

\* .<method>(points) under the guard; the guard is dropped as the statement
\* ends and the method returns ().
BuilderPush(t) ==
    /\ pc[t] = "b_push"
    /\ path' = [path EXCEPT ![call[t].paths[1]] =
                    PushEl(@, BuilderEl(call[t].fn, call[t].args))]
    /\ lock' = [lock EXCEPT ![call[t].paths[1]] = NoThread]
    /\ pc' = [pc EXCEPT ![t] = "idle"]
    /\ call' = [call EXCEPT ![t] = NoCall]
    /\ UNCHANGED <<live, local, ret, calls, born, engine_log>>

------------------------------------------------------------------------------
(* get_segments *)

GetSegmentsCall(t, p) ==
    /\ pc[t] = "idle"
    /\ p \in live
    /\ pc' = [pc EXCEPT ![t] = "gs_lock"]
    /\ call' = [call EXCEPT ![t] = Call("get_segments", <<p>>, << >>)]
    /\ UNCHANGED <<live, path, lock, local, ret, calls, born, engine_log>>

\* A mutant of GetSegmentsLock: the guard is dropped before the loop.
GetSegmentsLockDropped(t) ==
    /\ pc[t] = "gs_lock"
    /\ MutexFree(call[t].paths[1])
    /\ local' = [local EXCEPT ![t] =
                    [NoLocal EXCEPT !.end = Len(path[call[t].paths[1]])]]
    /\ pc' = [pc EXCEPT ![t] = "gs_loop"]
    /\ UNCHANGED <<live, path, lock, call, ret, calls, born, engine_log>>

\* let path = self.path.lock().unwrap(); let mut segments = Vec::new();
\* path.elements() is the slice the loop walks.
GetSegmentsLock(t) ==
    /\ pc[t] = "gs_lock"
    /\ MutexFree(call[t].paths[1])
    /\ lock' = [lock EXCEPT ![call[t].paths[1]] = t]
    /\ local' = [local EXCEPT ![t] =
                    [NoLocal EXCEPT !.end = Len(path[call[t].paths[1]])]]
    /\ pc' = [pc EXCEPT ![t] = "gs_loop"]
    /\ UNCHANGED <<live, path, call, ret, calls, born, engine_log>>

\* One turn of for el in path.elements(): segments.push(<the match on el>).
GetSegmentsLoop(t) ==
    /\ pc[t] = "gs_loop"
    /\ Len(local[t].segments) < local[t].end
    /\ local' = [local EXCEPT ![t].segments =
                    Append(@, ToSegment(path[call[t].paths[1]][Len(@) + 1]))]
    /\ UNCHANGED <<live, path, lock, pc, call, ret, calls, born, engine_log>>

\* A mutant of GetSegmentsReturn: the elements are moved out of the path.
GetSegmentsReturnDraining(t) ==
    /\ pc[t] = "gs_loop"
    /\ Len(local[t].segments) = local[t].end
    /\ path' = [path EXCEPT ![call[t].paths[1]] = << >>]
    /\ lock' = [lock EXCEPT ![call[t].paths[1]] = NoThread]
    /\ ret' = [ret EXCEPT ![t] = RetVec(local[t].segments)]
    /\ local' = [local EXCEPT ![t] = NoLocal]
    /\ pc' = [pc EXCEPT ![t] = "gs_ret"]
    /\ UNCHANGED <<live, call, calls, born, engine_log>>

\* The loop is over: segments is returned and the guard dropped.
GetSegmentsReturn(t) ==
    /\ pc[t] = "gs_loop"
    /\ Len(local[t].segments) = local[t].end
    /\ lock' = [lock EXCEPT ![call[t].paths[1]] = NoThread]
    /\ ret' = [ret EXCEPT ![t] = RetVec(local[t].segments)]
    /\ local' = [local EXCEPT ![t] = NoLocal]
    /\ pc' = [pc EXCEPT ![t] = "gs_ret"]
    /\ UNCHANGED <<live, path, call, calls, born, engine_log>>

------------------------------------------------------------------------------
(* The enums and the error of the binding, and their conversions. *)

BooleanOperation == {"Union", "Intersection", "Difference", "Xor"}
FillRule == {"EvenOdd", "NonZero"}

\* A mutant of BinaryOpFrom: two arms and a default.
BinaryOpFromDefaulted(op) ==
    CASE op = "Union" -> "BinaryOp::Union"
      [] op = "Intersection" -> "BinaryOp::Intersection"
      [] OTHER -> "BinaryOp::Union"

\* impl From<BooleanOperation> for BinaryOp
BinaryOpFrom(op) ==
    CASE op = "Union" -> "BinaryOp::Union"
      [] op = "Intersection" -> "BinaryOp::Intersection"
      [] op = "Difference" -> "BinaryOp::Difference"
      [] op = "Xor" -> "BinaryOp::Xor"

\* impl From<FillRule> for LsFillRule
LsFillRuleFrom(rule) ==
    CASE rule = "EvenOdd" -> "LsFillRule::EvenOdd"
      [] rule = "NonZero" -> "LsFillRule::NonZero"

\* linesweeper::Error: the two variants lib.rs names, and two that stand for
\* whatever else the match's `_` arm receives.
LsErr(name) == [ls |-> name]
LsErrorOther == {LsErr("OtherA"), LsErr("OtherB")}

\* format!("{:?}", err) of a variant without fields: the text of its name
DebugFmt(err) == err.ls

InfiniteInput == [variant |-> "InfiniteInput"]
NaNInput == [variant |-> "NaNInput"]
InternalError(message) == [variant |-> "InternalError", message |-> message]

\* A mutant of LineSweeperErrorFrom: the first two arms exchanged.
LineSweeperErrorFromSwapped(err) ==
    CASE err = LsErr("Infinity") -> NaNInput
      [] err = LsErr("NaN") -> InfiniteInput
      [] OTHER -> InternalError(DebugFmt(err))

\* impl From<LsError> for LineSweeperError
LineSweeperErrorFrom(err) ==
    CASE err = LsErr("Infinity") -> InfiniteInput
      [] err = LsErr("NaN") -> NaNInput
      [] OTHER -> InternalError(DebugFmt(err))

------------------------------------------------------------------------------
(* linesweeper::binary_op, the engine.  Its result is not computed here:   *)
(* non-finite input is an error, and on finite input it may return any     *)
(* list of at most MaxContours contours, each carrying one of the two      *)
(* input paths, or fail with another error.                                *)

Coords(bez) ==
    UNION { UNION { {bez[i].pts[j].x, bez[i].pts[j].y} :
                        j \in 1..Len(bez[i].pts) } : i \in 1..Len(bez) }

Contour(bez) == [path |-> bez]

ContourLists(S) == UNION { [1..n -> S] : n \in 0..MaxContours }

EngineOk(contours) == [ok |-> TRUE, contours |-> contours]
EngineErr(err) == [ok |-> FALSE, err |-> err]

binary_op(a, b, fill_rule, op) ==
    LET c == Coords(a) \cup Coords(b) IN
    IF c \cap (Infinite \cup NotANumber) # {}
    THEN {EngineErr(LsErr("Infinity")) : x \in c \cap Infinite}
         \cup {EngineErr(LsErr("NaN")) : x \in c \cap NotANumber}
    ELSE {EngineOk(cs) : cs \in ContourLists({Contour(a), Contour(b)})}
         \cup {EngineErr(e) : e \in LsErrorOther}

------------------------------------------------------------------------------
(* boolean_operation *)

BoInFlight == {"bo_lock_a", "bo_clone_a", "bo_lock_b", "bo_clone_b", "bo_engine"}

\* A call starts only if the Paths its result may hold can be made: the
\* model has MaxPaths of them.
BooleanOperationCall(t, a, b, operation, fill_rule) ==
    /\ pc[t] = "idle"
    /\ a \in live /\ b \in live
    /\ operation \in BooleanOperation /\ fill_rule \in FillRule
    /\ Cardinality(PathIds \ live) >=
           MaxContours * (1 + Cardinality({u \in Threads : pc[u] \in BoInFlight}))
    /\ pc' = [pc EXCEPT ![t] = "bo_lock_a"]
    /\ call' = [call EXCEPT ![t] =
                   Call("boolean_operation", <<a, b>>, <<operation, fill_rule>>)]
    /\ UNCHANGED <<live, path, lock, local, ret, calls, born, engine_log>>

\* to_kurbo_path: self.path.lock().unwrap(), for path_a then for path_b
ToKurboPathLock(t, at, p, next) ==
    /\ pc[t] = at
    /\ MutexFree(p)
    /\ lock' = [lock EXCEPT ![p] = t]
    /\ pc' = [pc EXCEPT ![t] = next]
    /\ UNCHANGED <<live, path, call, local, ret, calls, born, engine_log>>

ToKurboPathLockA(t) == ToKurboPathLock(t, "bo_lock_a", call[t].paths[1], "bo_clone_a")
ToKurboPathLockB(t) == ToKurboPathLock(t, "bo_lock_b", call[t].paths[2], "bo_clone_b")

\* A mutant of BezPathClone: the path is handed over, nothing is left behind.
BezPathTake(bez) == [copy |-> bez, left |-> << >>]

\* BezPath::clone(): a copy, and the path as it was
BezPathClone(bez) == [copy |-> bez, left |-> bez]

\* A mutant of ToKurboPathCloneA: the guard is bound to a name and lives on.
ToKurboPathCloneAGuardKept(t) ==
    /\ pc[t] = "bo_clone_a"
    /\ local' = [local EXCEPT ![t].kurbo_a = BezPathClone(path[call[t].paths[1]]).copy]
    /\ path' = [path EXCEPT ![call[t].paths[1]] = BezPathClone(@).left]
    /\ pc' = [pc EXCEPT ![t] = "bo_lock_b"]
    /\ UNCHANGED <<live, lock, call, ret, calls, born, engine_log>>

\* let kurbo_a = path_a.to_kurbo_path(): .clone() under the guard, which is
\* dropped as the statement ends
ToKurboPathCloneA(t) ==
    /\ pc[t] = "bo_clone_a"
    /\ local' = [local EXCEPT ![t].kurbo_a = BezPathClone(path[call[t].paths[1]]).copy]
    /\ path' = [path EXCEPT ![call[t].paths[1]] = BezPathClone(@).left]
    /\ lock' = [lock EXCEPT ![call[t].paths[1]] = NoThread]
    /\ pc' = [pc EXCEPT ![t] = "bo_lock_b"]
    /\ UNCHANGED <<live, call, ret, calls, born, engine_log>>

\* A mutant of ToKurboPathCloneB: kurbo_b is a clone of path_a.
ToKurboPathCloneBOfA(t) ==
    /\ pc[t] = "bo_clone_b"
    /\ local' = [local EXCEPT ![t].kurbo_b = BezPathClone(path[call[t].paths[1]]).copy]
    /\ path' = [path EXCEPT ![call[t].paths[2]] = BezPathClone(@).left]
    /\ lock' = [lock EXCEPT ![call[t].paths[2]] = NoThread]
    /\ pc' = [pc EXCEPT ![t] = "bo_engine"]
    /\ UNCHANGED <<live, call, ret, calls, born, engine_log>>

\* A mutant of ToKurboPathCloneB: the guard is bound to a name and lives on.
ToKurboPathCloneBGuardKept(t) ==
    /\ pc[t] = "bo_clone_b"
    /\ local' = [local EXCEPT ![t].kurbo_b = BezPathClone(path[call[t].paths[2]]).copy]
    /\ path' = [path EXCEPT ![call[t].paths[2]] = BezPathClone(@).left]
    /\ pc' = [pc EXCEPT ![t] = "bo_engine"]
    /\ UNCHANGED <<live, lock, call, ret, calls, born, engine_log>>

\* A mutant of ToKurboPathCloneB: both paths are cloned at this step.
ToKurboPathCloneBJoint(t) ==
    /\ pc[t] = "bo_clone_b"
    /\ local' = [local EXCEPT
                    ![t].kurbo_a = BezPathClone(path[call[t].paths[1]]).copy,
                    ![t].kurbo_b = BezPathClone(path[call[t].paths[2]]).copy]
    /\ path' = [path EXCEPT ![call[t].paths[2]] = BezPathClone(@).left]
    /\ lock' = [lock EXCEPT ![call[t].paths[2]] = NoThread]
    /\ pc' = [pc EXCEPT ![t] = "bo_engine"]
    /\ UNCHANGED <<live, call, ret, calls, born, engine_log>>

\* let kurbo_b = path_b.to_kurbo_path()
ToKurboPathCloneB(t) ==
    /\ pc[t] = "bo_clone_b"
    /\ local' = [local EXCEPT ![t].kurbo_b = BezPathClone(path[call[t].paths[2]]).copy]
    /\ path' = [path EXCEPT ![call[t].paths[2]] = BezPathClone(@).left]
    /\ lock' = [lock EXCEPT ![call[t].paths[2]] = NoThread]
    /\ pc' = [pc EXCEPT ![t] = "bo_engine"]
    /\ UNCHANGED <<live, call, ret, calls, born, engine_log>>

\* A mutant of convert_contours_to_paths: the contours are taken last first.
ConvertReversed(contours) ==
    [i \in 1..Len(contours) |-> contours[Len(contours) + 1 - i].path]

\* convert_contours_to_paths: contour.path.clone() of every contour, in the
\* order of contours.contours()
convert_contours_to_paths(contours) ==
    [i \in 1..Len(contours) |-> contours[i].path]

RECURSIVE Smallest(_, _)
Smallest(S, k) ==
    IF k = 0 THEN << >>
    ELSE LET m == CHOOSE x \in S : \A y \in S : x <= y
         IN <<m>> \o Smallest(S \ {m}, k - 1)

\* A mutant of FreshHandles: a Path that holds the same elements is reused.
InternedHandles(bezs) ==
    LET fresh == Smallest(PathIds \ live, Len(bezs)) IN
    [i \in 1..Len(bezs) |->
        IF \E p \in live : path[p] = bezs[i]
        THEN CHOOSE p \in live : path[p] = bezs[i]
        ELSE fresh[i]]

\* BezierPath::from_kurbo_path and Arc::new for every converted path: objects
\* that did not exist before, one each.
FreshHandles(bezs) == Smallest(PathIds \ live, Len(bezs))

\* A mutant of BinaryOpArgs: the two paths in the other order.
BinaryOpArgsSwapped(t) ==
    [a |-> local[t].kurbo_b, b |-> local[t].kurbo_a,
     fill_rule |-> LsFillRuleFrom(call[t].args[2]),
     op |-> BinaryOpFrom(call[t].args[1])]

\* The arguments of binary_op(&kurbo_a, &kurbo_b, LsFillRule::from(fill_rule),
\* BinaryOp::from(operation)).
BinaryOpArgs(t) ==
    [a |-> local[t].kurbo_a, b |-> local[t].kurbo_b,
     fill_rule |-> LsFillRuleFrom(call[t].args[2]),
     op |-> BinaryOpFrom(call[t].args[1])]

\* What the call logs of one engine invocation.
Invocation(a, b, fill_rule, op, out) ==
    [a |-> a, b |-> b, fill_rule |-> fill_rule, op |-> op, out |-> out]

\* binary_op, called with BinaryOpArgs, has returned out.
Invoked(t, out) ==
    engine_log' = [engine_log EXCEPT ![t] =
        Append(@, Invocation(BinaryOpArgs(t).a, BinaryOpArgs(t).b,
                             BinaryOpArgs(t).fill_rule, BinaryOpArgs(t).op, out))]

\* The `?` on an Err: boolean_operation returns Err(LineSweeperError::from(err)).
ReturnErr(t, out) ==
    /\ ret' = [ret EXCEPT ![t] = RetErr(LineSweeperErrorFrom(out.err))]
    /\ local' = [local EXCEPT ![t] = NoLocal]
    /\ pc' = [pc EXCEPT ![t] = "bo_ret"]
    /\ UNCHANGED <<live, path, born>>

\* On Ok: the contours converted, each path in an Arc, and
\* Ok(BooleanOperationResult { paths }) returned.
ReturnOk(t, out) ==
    LET bezs == convert_contours_to_paths(out.contours)
        ids == FreshHandles(bezs)
        at(p) == CHOOSE i \in 1..Len(ids) : ids[i] = p
        made == {ids[i] : i \in 1..Len(ids)}
    IN /\ live' = live \cup made
       /\ path' = [p \in PathIds |-> IF p \in made THEN bezs[at(p)] ELSE path[p]]
       /\ born' = [p \in PathIds |-> IF p \in made THEN bezs[at(p)] ELSE born[p]]
       /\ ret' = [ret EXCEPT ![t] = RetOk(ids)]
       /\ local' = [local EXCEPT ![t] = NoLocal]
       /\ pc' = [pc EXCEPT ![t] = "bo_ret"]

\* A mutant of BooleanOperationFinish: after an Err the engine is called again.
BooleanOperationFinishRetrying(t) ==
    /\ pc[t] = "bo_engine"
    /\ \E out \in binary_op(BinaryOpArgs(t).a, BinaryOpArgs(t).b,
                            BinaryOpArgs(t).fill_rule, BinaryOpArgs(t).op) :
        /\ Invoked(t, out)
        /\ IF out.ok THEN ReturnOk(t, out)
           ELSE UNCHANGED <<live, path, born, ret, local, pc>>
    /\ UNCHANGED <<lock, call, calls>>

\* let result = binary_op(...)?; then the conversion and the Ok.
BooleanOperationFinish(t) ==
    /\ pc[t] = "bo_engine"
    /\ \E out \in binary_op(BinaryOpArgs(t).a, BinaryOpArgs(t).b,
                            BinaryOpArgs(t).fill_rule, BinaryOpArgs(t).op) :
        /\ Invoked(t, out)
        /\ IF out.ok THEN ReturnOk(t, out) ELSE ReturnErr(t, out)
    /\ UNCHANGED <<lock, call, calls>>

------------------------------------------------------------------------------
(* The caller lets go of what a call returned.  The Paths of a result are   *)
(* destroyed with their last reference: when no call is using them.        *)

ResultPaths(t) ==
    IF ret[t].kind = "Ok" THEN {ret[t].paths[i] : i \in 1..Len(ret[t].paths)}
    ELSE {}

Drop(t) ==
    /\ pc[t] \in {"gs_ret", "bo_ret"}
    /\ \A u \in Threads \ {t} : \A i \in 1..Len(call[u].paths) :
          call[u].paths[i] \notin ResultPaths(t)
    /\ live' = live \ ResultPaths(t)
    /\ path' = [p \in PathIds |-> IF p \in ResultPaths(t) THEN new ELSE path[p]]
    /\ born' = [p \in PathIds |-> IF p \in ResultPaths(t) THEN new ELSE born[p]]
    /\ calls' = [p \in PathIds |-> IF p \in ResultPaths(t) THEN << >> ELSE calls[p]]
    /\ pc' = [pc EXCEPT ![t] = "idle"]
    /\ call' = [call EXCEPT ![t] = NoCall]
    /\ ret' = [ret EXCEPT ![t] = NoRet]
    /\ engine_log' = [engine_log EXCEPT ![t] = << >>]
    /\ UNCHANGED <<lock, local>>

------------------------------------------------------------------------------
(* The specifications. *)

\* The builder calls on the path the threads share.
SharedCalls ==
    { <<"move_to", <<"0.0", "1.0">> >>,
      <<"quad_to", <<"0.5", "1.0", "2.0", "0.0">> >> }

\* The builder calls of the boolean run: finite, infinite, not a number.
BoolCalls ==
    { <<"move_to", <<"0.0", "1.0">> >>,
      <<"line_to", <<"inf", "0.0">> >>,
      <<"line_to", <<"1.0", "NaN">> >> }

\* The calls that build a path in the usual order: a move_to, a quad_to, a
\* close_path, and over again.
OrderedCalls ==
    << <<"move_to", <<"0.0", "1.0">> >>,
       <<"quad_to", <<"0.5", "1.0", "2.0", "0.0">> >>,
       <<"close_path", << >> >> >>

\* The call that builds on what p holds and on the calls already made on it.
NthCall(p) ==
    OrderedCalls[((Len(born[p]) + Len(calls[p])) % Len(OrderedCalls)) + 1]

\* Thread 1 makes any call on any path, boolean_operation included, while
\* thread 2 builds and reads any path, the paths of a result included.
Next ==
    \E t \in {1, 2} :
        \/ \E p \in live : BuilderCall(t, p, NthCall(p)[1], NthCall(p)[2], MaxLen)
        \/ BuilderLock(t)
        \/ BuilderPush(t)
        \/ \E p \in live : GetSegmentsCall(t, p)
        \/ GetSegmentsLock(t)
        \/ GetSegmentsLoop(t)
        \/ GetSegmentsReturn(t)
        \/ \E a \in live, b \in live, o \in {"Difference"}, r \in {"NonZero"} :
              t = 1 /\ BooleanOperationCall(t, a, b, o, r)
        \/ ToKurboPathLockA(t)
        \/ ToKurboPathCloneA(t)
        \/ ToKurboPathLockB(t)
        \/ ToKurboPathCloneB(t)
        \/ BooleanOperationFinish(t)
        \/ Drop(t)

Spec == Init /\ [][Next]_vars

\* One thread builds one path with every kind of call, reads it back and
\* combines it with itself.
NextBuild ==
    \/ \E c \in BuildCalls : BuilderCall(1, 1, c[1], c[2], BuildLen)
    \/ BuilderLock(1)
    \/ BuilderPush(1)
    \/ GetSegmentsCall(1, 1)
    \/ GetSegmentsLock(1)
    \/ GetSegmentsLoop(1)
    \/ GetSegmentsReturn(1)
    \/ BooleanOperationCall(1, 1, 1, "Union", "EvenOdd")
    \/ ToKurboPathLockA(1)
    \/ ToKurboPathCloneA(1)
    \/ ToKurboPathLockB(1)
    \/ ToKurboPathCloneB(1)
    \/ BooleanOperationFinish(1)
    \/ Drop(1)

SpecBuild == Init /\ [][NextBuild]_vars

\* Every thread builds and reads the same path.
NextShare ==
    \E t \in Threads :
        \/ \E c \in SharedCalls : BuilderCall(t, 1, c[1], c[2], ShareLen)
        \/ BuilderLock(t)
        \/ BuilderPush(t)
        \/ GetSegmentsCall(t, 1)
        \/ GetSegmentsLock(t)
        \/ GetSegmentsLoop(t)
        \/ GetSegmentsReturn(t)
        \/ Drop(t)

SpecShare == Init /\ [][NextShare]_vars

\* One thread builds the two input paths and combines any two paths with
\* every operation and fill rule.
NextBool ==
    \/ \E p \in 1..NumInputs, c \in BoolCalls : BuilderCall(1, p, c[1], c[2], MaxLen)
    \/ BuilderLock(1)
    \/ BuilderPush(1)
    \/ \E a \in live, b \in live, o \in BooleanOperation, r \in FillRule :
          BooleanOperationCall(1, a, b, o, r)
    \/ ToKurboPathLockA(1)
    \/ ToKurboPathCloneA(1)
    \/ ToKurboPathLockB(1)
    \/ ToKurboPathCloneB(1)
    \/ BooleanOperationFinish(1)
    \/ Drop(1)

SpecBool == Init /\ [][NextBool]_vars

\* The builder call of the run on the locks: its coordinate is infinite, so
\* that the engine has one answer for a path that holds an element.
LockCall == <<"line_to", <<"inf", "0.0">> >>

\* Two threads make any call on the two input paths, boolean_operation on the
\* same path twice and on the two paths in either order included.
NextLocks ==
    \E t \in {1, 2} :
        \/ \E p \in 1..NumInputs :
              BuilderCall(t, p, LockCall[1], LockCall[2], MaxLen)
        \/ BuilderLock(t)
        \/ BuilderPush(t)
        \/ \E p \in 1..NumInputs : GetSegmentsCall(t, p)
        \/ GetSegmentsLock(t)
        \/ GetSegmentsLoop(t)
        \/ GetSegmentsReturn(t)
        \/ \E a \in 1..NumInputs, b \in 1..NumInputs :
              BooleanOperationCall(t, a, b, "Xor", "EvenOdd")
        \/ ToKurboPathLockA(t)
        \/ ToKurboPathCloneA(t)
        \/ ToKurboPathLockB(t)
        \/ ToKurboPathCloneB(t)
        \/ BooleanOperationFinish(t)
        \/ Drop(t)

\* A thread inside a call keeps running, the engine returns, and a Mutex
\* that is free again and again is at last given to a thread that waits
\* for it.  Nothing makes a thread start a call or let go of a result.
\* The step of t that takes a Mutex, and the step of t that needs none.
Acquire(t) ==
    BuilderLock(t) \/ GetSegmentsLock(t) \/ ToKurboPathLockA(t) \/ ToKurboPathLockB(t)

Run(t) ==
    \/ BuilderPush(t)
    \/ GetSegmentsLoop(t)
    \/ GetSegmentsReturn(t)
    \/ ToKurboPathCloneA(t)
    \/ ToKurboPathCloneB(t)
    \/ BooleanOperationFinish(t)

FairLocks ==
    \A t \in {1, 2} : SF_vars(Acquire(t)) /\ WF_vars(Run(t))

SpecLocks == Init /\ [][NextLocks]_vars /\ FairLocks

\* Thread 2 builds on path 1 and then on path 2, never on path 2 while
\* path 1 is empty, while thread 1 runs boolean_operation(path 1, path 2).
NextTorn ==
    \/ \E p \in 1..NumInputs :
          /\ p = 2 => path[1] # << >>
          /\ BuilderCall(2, p, NthCall(p)[1], NthCall(p)[2], MaxLen)
    \/ BuilderLock(2)
    \/ BuilderPush(2)
    \/ \E o \in BooleanOperation : BooleanOperationCall(1, 1, 2, o, "NonZero")
    \/ ToKurboPathLockA(1)
    \/ ToKurboPathCloneA(1)
    \/ ToKurboPathLockB(1)
    \/ ToKurboPathCloneB(1)
    \/ BooleanOperationFinish(1)
    \/ Drop(1)

SpecTorn == Init /\ [][NextTorn]_vars

\* The two squares of test_basic_operation: the unit square, and the unit
\* square offset by (0.5, 0.5).
UnitSquare ==
    << <<"move_to", <<"0.0", "0.0">> >>,
       <<"line_to", <<"1.0", "0.0">> >>,
       <<"line_to", <<"1.0", "1.0">> >>,
       <<"line_to", <<"0.0", "1.0">> >>,
       <<"close_path", << >> >> >>

OffsetSquare ==
    << <<"move_to", <<"0.5", "0.5">> >>,
       <<"line_to", <<"1.5", "0.5">> >>,
       <<"line_to", <<"1.5", "1.5">> >>,
       <<"line_to", <<"0.5", "1.5">> >>,
       <<"close_path", << >> >> >>

SquareOf(p) == IF p = 1 THEN UnitSquare ELSE OffsetSquare

\* The next call that builds p's square; x is the first coordinate passed
\* to a line_to in place of the square's own ("ok": the square's own).
SquareCall(p, x) ==
    LET c == SquareOf(p)[Len(calls[p]) + 1] IN
    IF x = "ok" \/ c[1] # "line_to" THEN c ELSE <<c[1], <<x, c[2][2]>> >>

\* One thread builds the two squares, a coordinate of a line_to possibly
\* infinite or not a number, and combines them once both are closed.
NextSquares ==
    \/ \E p \in 1..NumInputs, x \in {"ok"} \cup Infinite \cup NotANumber :
          /\ Len(calls[p]) < Len(SquareOf(p))
          /\ BuilderCall(1, p, SquareCall(p, x)[1], SquareCall(p, x)[2],
                         Len(SquareOf(p)))
    \/ BuilderLock(1)
    \/ BuilderPush(1)
    \/ \E a \in 1..NumInputs, b \in 1..NumInputs, r \in FillRule :
          /\ \A p \in 1..NumInputs : Len(path[p]) = Len(SquareOf(p))
          /\ BooleanOperationCall(1, a, b, "Union", r)
    \/ ToKurboPathLockA(1)
    \/ ToKurboPathCloneA(1)
    \/ ToKurboPathLockB(1)
    \/ ToKurboPathCloneB(1)
    \/ BooleanOperationFinish(1)
    \/ Drop(1)

SpecSquares == Init /\ [][NextSquares]_vars

------------------------------------------------------------------------------
(* What the claims speak of. *)

\* The segment a builder call stands for: the variant of the call, with the
\* coordinates in the order they were passed.
ExpectedSegment(c) ==
    CASE c.fn = "move_to" -> [seg |-> "MoveTo", x |-> c.args[1], y |-> c.args[2]]
      [] c.fn = "line_to" -> [seg |-> "LineTo", x |-> c.args[1], y |-> c.args[2]]
      [] c.fn = "quad_to" ->
            [seg |-> "QuadTo", cp_x |-> c.args[1], cp_y |-> c.args[2],
             x |-> c.args[3], y |-> c.args[4]]
      [] c.fn = "curve_to" ->
            [seg |-> "CurveTo", cp1_x |-> c.args[1], cp1_y |-> c.args[2],
             cp2_x |-> c.args[3], cp2_y |-> c.args[4],
             x |-> c.args[5], y |-> c.args[6]]
      [] c.fn = "close_path" -> [seg |-> "ClosePath"]

IsPrefix(s, w) == Len(s) <= Len(w) /\ SubSeq(w, 1, Len(s)) = s

Occurrences(s, e) == Cardinality({i \in 1..Len(s) : s[i] = e})

Elements(s) == {s[i] : i \in 1..Len(s)}

\* The builder calls on p that have not pushed their element yet.
Pending(p) ==
    {t \in Threads : pc[t] \in {"b_lock", "b_push"} /\ call[t].paths = <<p>>}

\* The threads that hold a guard of p's Mutex.
InCritical(p) ==
    {t \in Threads :
        \/ pc[t] \in {"b_push", "gs_loop", "bo_clone_a"} /\ call[t].paths[1] = p
        \/ pc[t] = "bo_clone_b" /\ call[t].paths[2] = p}

\* The engine invocation of the call t has returned from.
LastInvocation(t) == engine_log[t][Len(engine_log[t])]

------------------------------------------------------------------------------
(* C1.  Round trip: when get_segments returns on a path made by new(), its  *)
(* result has one segment per builder call made on the path, in call       *)
(* order, each of the variant of its call and with the coordinates passed  *)
(* to it; after no call it is empty.  (SpecBuild: one thread.)             *)
C1_RoundTrip ==
    \A t \in Threads :
        pc[t] = "gs_ret" /\ born[call[t].paths[1]] = new =>
            ret[t].segments =
                [i \in 1..Len(calls[call[t].paths[1]]) |->
                    ExpectedSegment(calls[call[t].paths[1]][i])]

C1_Witness ==
    /\ pc[1] = "gs_ret"
    /\ Len(ret[1].segments) = 3
    /\ ret[1].segments[1].seg = "MoveTo"
    /\ ret[1].segments[2].seg = "QuadTo"
    /\ ret[1].segments[3].seg = "CurveTo"

(* C2.  Atomic read: while get_segments walks a path, the path does not   *)
(* change; when it returns, its result is the whole sequence the path      *)
(* holds at that moment, no builder call is inside its push on that path,  *)
(* and the sequence holds the element of every builder call made on the    *)
(* path but those still waiting for the Mutex: each concurrent call is     *)
(* wholly before the read or wholly after it.                              *)
C2_AtomicRead ==
    [][\A t \in Threads :
          LET p == call[t].paths[1] IN
          /\ pc[t] = "gs_loop" /\ pc'[t] = "gs_loop" => path'[p] = path[p]
          /\ pc[t] = "gs_loop" /\ pc'[t] = "gs_ret" =>
                /\ ret'[t].segments = [i \in 1..Len(path[p]) |-> ToSegment(path[p][i])]
                /\ \A u \in Pending(p) : pc[u] = "b_lock"
                /\ Len(path[p]) = Len(born[p]) + Len(calls[p]) - Cardinality(Pending(p))
      ]_vars

\* A read has returned one segment while a builder call made during the read
\* on the same path still waits for the Mutex.
C2_Witness ==
    \E t \in Threads, u \in Threads :
        /\ pc[t] = "gs_ret" /\ Len(ret[t].segments) = 1
        /\ pc[u] = "b_lock" /\ call[u].paths = call[t].paths
        /\ Len(path[call[t].paths[1]]) = 1

(* C3.  Mutual exclusion of builders: at most one thread holds the guard   *)
(* of a path; the path holds what it was made with and then exactly the    *)
(* elements of the builder calls made on it that are not pending, each as  *)
(* often as it was called, so that when no call is pending N calls have    *)
(* added N elements, one per call.                                         *)
C3_MutualExclusion ==
    \A p \in live :
        /\ Cardinality(InCritical(p)) <= 1
        /\ IsPrefix(born[p], path[p])
        /\ Len(path[p]) = Len(born[p]) + Len(calls[p]) - Cardinality(Pending(p))
        /\ \A c \in Elements(calls[p]) :
              Occurrences(SubSeq(path[p], Len(born[p]) + 1, Len(path[p])),
                          BuilderEl(c.fn, c.args))
                  = Cardinality({i \in 1..Len(calls[p]) :
                                    BuilderEl(calls[p][i].fn, calls[p][i].args)
                                        = BuilderEl(c.fn, c.args)})
                    - Cardinality({t \in Pending(p) :
                                    BuilderEl(call[t].fn, call[t].args)
                                        = BuilderEl(c.fn, c.args)})

\* Two builder calls on one path at once: one holds the guard, one waits.
C3_Witness ==
    \E t \in Threads, u \in Threads :
        /\ pc[t] = "b_push" /\ pc[u] = "b_lock"
        /\ call[t].paths = call[u].paths
        /\ call[t].fn # call[u].fn

(* C4.  Append-only: in every step, whatever call takes it, the sequence   *)
(* of every path that exists before and after the step is a prefix of its  *)
(* sequence after the step.                                                *)
C4_AppendOnly ==
    [][\A p \in live \cap live' : IsPrefix(path[p], path'[p])]_vars

\* A path made from a contour has been built on while a boolean_operation on
\* the two inputs and a read have taken place.
C4_Witness ==
    /\ pc[1] = "bo_ret" /\ ret[1].kind = "Ok"
    /\ pc[2] = "gs_ret" /\ Len(ret[2].segments) = 2
    /\ \E p \in live : Len(born[p]) = 1 /\ Len(path[p]) = 2

(* C5.  boolean_operation does not mutate its inputs: no step of a          *)
(* boolean_operation call, whatever the operation, the fill rule and the   *)
(* engine's answer, changes the sequence of any path that exists.          *)
C5_InputsUnchanged ==
    [][\A t \in Threads :
          pc[t] \in BoInFlight /\ pc'[t] # pc[t] =>
              \A p \in live : path'[p] = path[p]
      ]_vars

\* A call on two different paths that hold elements has returned.
C5_Witness ==
    /\ pc[1] = "bo_ret"
    /\ call[1].paths[1] # call[1].paths[2]
    /\ path[call[1].paths[1]] # << >>
    /\ path[call[1].paths[2]] # << >>
    /\ engine_log[1][1].op = "BinaryOp::Xor"

(* C6.  Isolation: the Paths of a result are objects of their own, none    *)
(* of them one of the two inputs or another Path of the result, and a      *)
(* builder call changes the sequence of the Path it is called on and of    *)
(* no other Path.                                                          *)
C6_Isolation ==
    /\ [](\A t \in Threads : ret[t].kind = "Ok" =>
            /\ \A i \in 1..Len(ret[t].paths) :
                  ret[t].paths[i] \notin Elements(call[t].paths)
            /\ \A i \in 1..Len(ret[t].paths), j \in 1..Len(ret[t].paths) :
                  ret[t].paths[i] = ret[t].paths[j] => i = j)
    /\ [][\A t \in Threads :
            pc[t] = "b_push" /\ pc'[t] # "b_push" =>
                \A q \in PathIds \ {call[t].paths[1]} : path'[q] = path[q]
         ]_vars

\* A Path of a result has been built on, and so has an input after the call;
\* the other Path of the result is as it was made.
C6_Witness ==
    /\ pc[1] = "bo_ret" /\ ret[1].kind = "Ok" /\ Len(ret[1].paths) = 2
    /\ Len(path[ret[1].paths[1]]) > Len(born[ret[1].paths[1]])
    /\ path[ret[1].paths[2]] = born[ret[1].paths[2]]
    /\ path[call[1].paths[1]] # engine_log[1][1].a

(* C7.  Error classification: when boolean_operation has returned, it       *)
(* returned an error exactly if the engine did; the engine's Infinity is   *)
(* InfiniteInput, its NaN is NaNInput, and any other error is an           *)
(* InternalError whose message is the name of that error.                  *)
C7_ErrorClassification ==
    \A t \in Threads :
        pc[t] = "bo_ret" =>
            LET out == LastInvocation(t).out IN
            /\ out.ok <=> ret[t].kind = "Ok"
            /\ ~out.ok =>
                /\ ret[t].kind = "Err"
                /\ ret[t].error.variant \in {"InfiniteInput", "NaNInput", "InternalError"}
                /\ out.err.ls = "Infinity" <=> ret[t].error.variant = "InfiniteInput"
                /\ out.err.ls = "NaN" <=> ret[t].error.variant = "NaNInput"
                /\ ret[t].error.variant = "InternalError" =>
                      ret[t].error.message = out.err.ls

\* The engine has reported an infinite coordinate.
C7_Witness ==
    /\ pc[1] = "bo_ret"
    /\ ret[1].kind = "Err"
    /\ ret[1].error.variant = "InfiniteInput"

(* C8.  All or nothing, no retry: a call invokes the engine at most once,  *)
(* and exactly once when it has returned; it has then made one Path for    *)
(* every contour of the engine's output, or, on an error, no Path at all.  *)
(* (SpecBool: one thread, so that the Paths beside the inputs are those of *)
(* the call.)                                                              *)
C8_AllOrNothing ==
    \A t \in Threads :
        /\ Len(engine_log[t]) <= 1
        /\ pc[t] = "bo_ret" =>
            /\ Len(engine_log[t]) = 1
            /\ ret[t].kind = "Ok" =>
                  /\ Len(ret[t].paths) = Len(LastInvocation(t).out.contours)
                  /\ live = (1..NumInputs) \cup Elements(ret[t].paths)
            /\ ret[t].kind = "Err" => live = 1..NumInputs

\* A call has failed after one engine invocation.
C8_Witness ==
    /\ pc[1] = "bo_ret"
    /\ ret[1].kind = "Err"
    /\ Len(engine_log[1]) = 1
    /\ ret[1].error.variant = "InternalError"

(* C9.  Result order: on success the result has as many Paths as the       *)
(* engine's output has contours, the i-th Path holds the path of the i-th   *)
(* contour, and the Paths are all different objects.  (SpecBool: one       *)
(* thread, so that nothing is built on them before they are looked at.)    *)
C9_ResultOrder ==
    \A t \in Threads :
        pc[t] = "bo_ret" /\ ret[t].kind = "Ok" =>
            LET contours == LastInvocation(t).out.contours IN
            /\ Len(ret[t].paths) = Len(contours)
            /\ \A i \in 1..Len(contours) :
                  /\ ret[t].paths[i] \in live
                  /\ path[ret[t].paths[i]] = contours[i].path
            /\ Cardinality(Elements(ret[t].paths)) = Len(contours)

\* Two contours of different paths, and two of the same path.
C9_Witness ==
    /\ pc[1] = "bo_ret" /\ ret[1].kind = "Ok" /\ Len(ret[1].paths) = 2
    /\ path[ret[1].paths[1]] # path[ret[1].paths[2]]
    /\ path[ret[1].paths[1]] # << >>

(* C10.  Builders never fail and never validate: the push of every builder *)
(* call, whatever its coordinates and whatever the path holds, puts the    *)
(* element of the call at the end of the path and returns nothing; an      *)
(* error is only ever what a boolean_operation call returned.              *)
C10_BuildersNeverFail ==
    /\ [](\A t \in Threads : ret[t].kind = "Err" => call[t].fn = "boolean_operation")
    /\ [][\A t \in Threads :
            pc[t] = "b_push" /\ pc'[t] # "b_push" =>
                /\ path'[call[t].paths[1]] =
                       Append(path[call[t].paths[1]],
                              BuilderEl(call[t].fn, call[t].args))
                /\ pc'[t] = "idle"
                /\ ret'[t] = NoRet
         ]_vars

\* A line_to with an infinite coordinate on a path without a move_to, then
\* two move_to in a row, one with a not-a-number coordinate; the engine
\* has then reported the path.
C10_Witness ==
    /\ Len(path[1]) = 3
    /\ path[1][1] = PathEl("LineTo", <<Point("inf", "0.0")>>)
    /\ path[1][2].el = "MoveTo"
    /\ path[1][3] = PathEl("MoveTo", <<Point("NaN", "1.0")>>)
    /\ pc[1] = "bo_ret" /\ ret[1].kind = "Err"

(* C11.  Non-finite rejection: when boolean_operation has returned on the   *)
(* two squares, in either order, and a square holds an infinite coordinate *)
(* (and none that is not a number), it returned InfiniteInput; when a      *)
(* square holds a coordinate that is not a number (and none infinite), it  *)
(* returned NaNInput.  The engine is taken to report such input, as its    *)
(* interface says.  (SpecSquares: one thread.)                             *)
C11_NonFiniteRejection ==
    \A t \in Threads :
        pc[t] = "bo_ret" =>
            LET c == Coords(path[call[t].paths[1]]) \cup Coords(path[call[t].paths[2]])
            IN /\ c \cap Infinite # {} /\ c \cap NotANumber = {} =>
                      ret[t] = RetErr(InfiniteInput)
               /\ c \cap NotANumber # {} /\ c \cap Infinite = {} =>
                      ret[t] = RetErr(NaNInput)

\* The unit square and the offset square with a coordinate that is not a
\* number, as the second operand: NaNInput.
C11_Witness ==
    /\ pc[1] = "bo_ret" /\ call[1].paths = <<1, 2>>
    /\ Len(path[1]) = 5 /\ Len(path[2]) = 5
    /\ Coords(path[1]) \subseteq Finite
    /\ "NaN" \in Coords(path[2]) /\ "inf" \notin Coords(path[2])
    /\ ret[1] = RetErr(NaNInput)

(* C12.  No lock across the engine: a boolean_operation call holds the     *)
(* guard of a path only between locking it and the end of its clone, the   *)
(* guard of path_a or of path_b and never both; while the engine runs and  *)
(* after, the call holds no guard, so that a builder call or a             *)
(* get_segments of another thread on path_a or path_b never waits for it.  *)
C12_NoLockAcrossEngine ==
    \A t \in Threads :
        call[t].fn = "boolean_operation" =>
            /\ \A p \in PathIds :
                  lock[p] = t =>
                      \/ pc[t] = "bo_clone_a" /\ p = call[t].paths[1]
                      \/ pc[t] = "bo_clone_b" /\ p = call[t].paths[2]
            /\ pc[t] \in {"bo_engine", "bo_ret"} =>
                  \A u \in Threads \ {t} :
                      pc[u] \in {"b_lock", "gs_lock"}
                          /\ call[u].paths[1] \in Elements(call[t].paths) =>
                              lock[call[u].paths[1]] # t

\* While the engine runs for thread 1, thread 2 has taken the guard of
\* path_a and is inside its push.
C12_Witness ==
    /\ pc[1] = "bo_engine"
    /\ pc[2] = "b_push"
    /\ call[2].paths[1] = call[1].paths[1]
    /\ lock[call[1].paths[1]] = 2
    /\ local[1].kurbo_a = << >>

(* C13.  Idempotent read: no step of a get_segments call changes the       *)
(* sequence of any path; and when a get_segments returns on a path while   *)
(* another thread still holds the result of an earlier get_segments on     *)
(* that path, and no builder call was made on the path since that earlier  *)
(* read (the earlier result has an element for every builder call ever     *)
(* made on the path), the two results are the same sequence, whatever      *)
(* boolean_operation calls were made in between.                           *)
C13_IdempotentRead ==
    [][\A t \in Threads :
          LET p == call[t].paths[1] IN
          /\ pc[t] \in {"gs_lock", "gs_loop"}
                /\ (pc'[t] # pc[t] \/ local'[t] # local[t]) => path' = path
          /\ pc[t] = "gs_loop" /\ pc'[t] = "gs_ret" =>
                \A u \in Threads \ {t} :
                    /\ pc[u] = "gs_ret"
                    /\ call[u].paths = call[t].paths
                    /\ Len(ret[u].segments) = Len(born[p]) + Len(calls[p])
                    => ret'[t].segments = ret[u].segments
      ]_vars

\* Two reads of a path that holds an element, both results held.
C13_Witness ==
    /\ pc[1] = "gs_ret" /\ pc[2] = "gs_ret"
    /\ call[1].paths = call[2].paths
    /\ ret[1].segments = ret[2].segments
    /\ Len(ret[1].segments) = 1
    /\ path[call[1].paths[1]] = <<PathEl("MoveTo", <<Point("0.0", "1.0")>>)>>

(* C14.  Enum mapping: every BooleanOperation and every FillRule has an     *)
(* engine value, that of the same name; different operations have          *)
(* different engine values and so have different fill rules; and a         *)
(* boolean_operation call that has returned has invoked the engine with    *)
(* the engine values of the same names as its operation and its fill rule. *)
C14_EnumMapping ==
    LET SameName == { <<"Union", "BinaryOp::Union">>,
                      <<"Intersection", "BinaryOp::Intersection">>,
                      <<"Difference", "BinaryOp::Difference">>,
                      <<"Xor", "BinaryOp::Xor">>,
                      <<"EvenOdd", "LsFillRule::EvenOdd">>,
                      <<"NonZero", "LsFillRule::NonZero">> }
    IN /\ \A o \in BooleanOperation : <<o, BinaryOpFrom(o)>> \in SameName
       /\ \A r \in FillRule : <<r, LsFillRuleFrom(r)>> \in SameName
       /\ Cardinality({<<BinaryOpFrom(o), LsFillRuleFrom(r)>> :
                           o \in BooleanOperation, r \in FillRule}) = 8
       /\ \A t \in Threads :
              pc[t] = "bo_ret" =>
                  /\ <<call[t].args[1], LastInvocation(t).op>> \in SameName
                  /\ <<call[t].args[2], LastInvocation(t).fill_rule>> \in SameName

\* A Difference under NonZero has reached the engine.
C14_Witness ==
    /\ pc[1] = "bo_ret"
    /\ call[1].args = <<"Difference", "NonZero">>
    /\ LastInvocation(1).op = "BinaryOp::Difference"
    /\ LastInvocation(1).fill_rule = "LsFillRule::NonZero"

(* C16.  Engine input fidelity: the clone a boolean_operation call takes   *)
(* of path_a, and of path_b, is the sequence that path holds at that       *)
(* step, element for element; and the engine is invoked with the clone of  *)
(* path_a as its first operand and the clone of path_b as its second, the  *)
(* engine fill rule of the call's fill rule and the engine operation of    *)
(* the call's operation.                                                   *)
C16_EngineInputFidelity ==
    [][\A t \in Threads :
          /\ pc[t] = "bo_clone_a" /\ pc'[t] = "bo_lock_b" =>
                /\ Len(local'[t].kurbo_a) = Len(path[call[t].paths[1]])
                /\ \A i \in 1..Len(path[call[t].paths[1]]) :
                      local'[t].kurbo_a[i] = path[call[t].paths[1]][i]
          /\ pc[t] = "bo_clone_b" /\ pc'[t] = "bo_engine" =>
                /\ Len(local'[t].kurbo_b) = Len(path[call[t].paths[2]])
                /\ \A i \in 1..Len(path[call[t].paths[2]]) :
                      local'[t].kurbo_b[i] = path[call[t].paths[2]][i]
          /\ pc[t] = "bo_engine" /\ pc'[t] = "bo_ret" =>
                /\ Len(engine_log'[t]) = Len(engine_log[t]) + 1
                /\ engine_log'[t][Len(engine_log'[t])].a = local[t].kurbo_a
                /\ engine_log'[t][Len(engine_log'[t])].b = local[t].kurbo_b
                /\ engine_log'[t][Len(engine_log'[t])].fill_rule
                       = LsFillRuleFrom(call[t].args[2])
                /\ engine_log'[t][Len(engine_log'[t])].op
                       = BinaryOpFrom(call[t].args[1])
      ]_vars

\* A Difference of path 1, which holds an element, and path 2, which holds
\* none, has reached the engine in that order.
C16_Witness ==
    /\ pc[1] = "bo_ret"
    /\ call[1].paths = <<1, 2>>
    /\ LastInvocation(1).a = <<PathEl("MoveTo", <<Point("0.0", "1.0")>>)>>
    /\ LastInvocation(1).b = << >>
    /\ LastInvocation(1).op = "BinaryOp::Difference"

(* C17.  Snapshot independence: the sequence a get_segments call returned  *)
(* stays as it is while the caller holds it, whatever is built on the path *)
(* meanwhile; the clones a boolean_operation call took of path_a and       *)
(* path_b stay as they were taken until the engine is called, they are     *)
(* what the engine is called with, and what the call returned stays as it  *)
(* is while the caller holds it.                                           *)
C17_SnapshotIndependence ==
    [][\A t \in Threads :
          /\ pc[t] = "gs_ret" /\ pc'[t] = "gs_ret" => ret'[t] = ret[t]
          /\ pc[t] \in {"bo_lock_b", "bo_clone_b", "bo_engine"}
                /\ pc'[t] \in {"bo_lock_b", "bo_clone_b", "bo_engine"} =>
                    local'[t].kurbo_a = local[t].kurbo_a
          /\ pc[t] = "bo_engine" /\ pc'[t] = "bo_engine" =>
                local'[t].kurbo_b = local[t].kurbo_b
          /\ pc[t] = "bo_engine" /\ pc'[t] = "bo_ret" =>
                <<LastInvocation(t).a, LastInvocation(t).b>>'
                    = <<local[t].kurbo_a, local[t].kurbo_b>>
          /\ pc[t] = "bo_ret" /\ pc'[t] = "bo_ret" =>
                ret'[t] = ret[t] /\ engine_log'[t] = engine_log[t]
      ]_vars

\* Thread 1 holds what get_segments returned on a path when it was empty;
\* the path has an element now.
C17_Witness ==
    /\ pc[1] = "gs_ret"
    /\ ret[1].segments = << >>
    /\ Len(path[call[1].paths[1]]) = 1
    /\ calls[call[1].paths[1]] # << >>

C19_PerPathSnapshots ==
    /\ [](~(path[1] = << >> /\ path[2] # << >>))
    /\ [][\A t \in Threads :
            /\ pc[t] = "bo_clone_b" /\ pc'[t] = "bo_engine" =>
                  /\ local'[t].kurbo_b = path[call[t].paths[2]]
                  /\ local'[t].kurbo_a = local[t].kurbo_a
                  /\ IsPrefix(local'[t].kurbo_a, path[call[t].paths[1]])
            /\ pc[t] = "bo_engine" /\ pc'[t] = "bo_ret" =>
                  /\ IsPrefix(LastInvocation(t).a', path[call[t].paths[1]])
                  /\ IsPrefix(LastInvocation(t).b', path[call[t].paths[2]])
                  /\ Len(LastInvocation(t).a') = Len(local[t].kurbo_a)
                  /\ Len(LastInvocation(t).b') = Len(local[t].kurbo_b)
         ]_vars

\* The engine has been called with path 1 empty and path 2 not: thread 2
\* pushed on path 1 after it was cloned and on path 2 before it was.
C19_Witness ==
    /\ pc[1] = "bo_ret"
    /\ call[1].paths = <<1, 2>>
    /\ LastInvocation(1).a = << >>
    /\ LastInvocation(1).b # << >>
    /\ LastInvocation(1).b = path[2]
    /\ path[1] # << >>

====
